---- MODULE Spec2Model ----
(***************************************************************************)
(* Draftworx automation library: the composed automations                  *)
(* copySelectionToNewSheet and duplicateSelection (lib/automations.ts),    *)
(* the range primitives captureSelection and pasteRange (lib/range.ts),    *)
(* the sheet primitives createSheet and generateUniqueSheetName            *)
(* (lib/sheet.ts), run against an Excel host; and the address and column  *)
(* arithmetic of the task pane's extractSelectionData                      *)
(* (taskpane/taskpane.ts).                                                 *)
(*                                                                         *)
(* A string is a sequence of one-character strings, so that toLowerCase,   *)
(* split, includes and template literals are computed character by         *)
(* character.  Every `await context.sync()` is a suspension point: one     *)
(* action runs an invocation from one sync to the next, the host's answer  *)
(* to the sync (its data, or the error it raises) being the action's input.*)
(***************************************************************************)
EXTENDS Integers, Sequences, FiniteSets, TLC

\* Number of automation invocations that may be in flight together.
NProcs == 2

\* Largest k of an existing sheet named "Copy of Data (k)".
MaxSuffix == 10

\* Largest column number converted to letters.
MaxColumn == 703

\* Longest run of column letters converted to a number.
MaxLetters == 2

\* Longest start-cell text parsed.
MaxRef == 4

\* Longest address text stripped of its sheet prefix (the examples apart).
MaxAddress == 4

\* Largest number of rows, and of columns, of a selection the task pane
\* serializes.
MaxDim == 2

\* Largest number of selection-changed handlers the task pane creates.
MaxHandlers == 3

Procs == 1..NProcs

(***************************************************************************)
(* Strings                                                                 *)
(***************************************************************************)
UpperChars == <<"A","B","C","D","E","F","G","H","I","J","K","L","M",
                "N","O","P","Q","R","S","T","U","V","W","X","Y","Z">>
LowerChars == <<"a","b","c","d","e","f","g","h","i","j","k","l","m",
                "n","o","p","q","r","s","t","u","v","w","x","y","z">>
DigitChars == <<"0","1","2","3","4","5","6","7","8","9">>

\* the lower-case letter of each upper-case letter
LowerOf ==
  [c \in {UpperChars[i] : i \in 1..26} |->
     LowerChars[CHOOSE i \in 1..26 : UpperChars[i] = c]]

\* String.prototype.toLowerCase, one character
LowerChar(c) == IF c \in DOMAIN LowerOf THEN LowerOf[c] ELSE c

\* String.prototype.toLowerCase
toLowerCase(s) == [i \in 1..Len(s) |-> LowerChar(s[i])]

\* `${counter}`: the decimal digits of a non-negative integer
RECURSIVE NumberToString(_)
NumberToString(n) ==
  IF n < 10 THEN <<DigitChars[n + 1]>>
  ELSE NumberToString(n \div 10) \o <<DigitChars[(n % 10) + 1]>>

\* String.prototype.includes, for a one-character needle
includes(s, c) == \E i \in 1..Len(s) : s[i] = c

\* String.prototype.split, for a one-character separator
RECURSIVE split(_, _)
split(s, c) ==
  IF ~includes(s, c) THEN <<s>>
  ELSE LET i == CHOOSE k \in 1..Len(s) : s[k] = c /\ \A j \in 1..(k - 1) : s[j] # c
       IN  <<SubSeq(s, 1, i - 1)>> \o split(SubSeq(s, i + 1, Len(s)), c)

\* The text of the names and addresses the model uses
Data == <<"D","a","t","a">>
Backup == <<"B","a","c","k","u","p">>
BACKUP == <<"B","A","C","K","U","P">>
Backup2 == <<"B","a","c","k","u","p"," ","(","2",")">>
CopyOfData == <<"C","o","p","y"," ","o","f"," ","D","a","t","a">>
copyofdata2 == <<"c","o","p","y"," ","o","f"," ","d","a","t","a"," ","(","2",")">>
B2C3 == <<"B","2",":","C","3">>
A1 == <<"A","1">>
Undefined == <<>>

\* A cell of a values or formulas grid
Cell(type, text) == [type |-> type, text |-> text]
Text20 == <<"2","0">>
TextX == <<"x">>
TextFormula == <<"=","A","1","*","2">>

(***************************************************************************)
(* The host: what a selection read can return                              *)
(***************************************************************************)
\* B2:C3 on the active sheet, B2 holding the formula =A1*2 (value 20)
SelB2C3 ==
  [address |-> B2C3, rowCount |-> 2, columnCount |-> 2,
   values |-> << <<Cell("number", Text20), Cell("string", TextX)>>,
                 <<Cell("string", Undefined), Cell("number", <<"7">>)>> >>,
   formulas |-> << <<Cell("string", TextFormula), Cell("string", TextX)>>,
                   <<Cell("string", Undefined), Cell("number", <<"7">>)>> >>]
\* degenerate selections: zero rows, zero columns
SelNoRows ==
  [address |-> A1, rowCount |-> 0, columnCount |-> 2,
   values |-> <<>>, formulas |-> <<>>]
SelNoColumns ==
  [address |-> A1, rowCount |-> 1, columnCount |-> 0,
   values |-> << <<>> >>, formulas |-> << <<>> >>]
Selections == {SelB2C3, SelNoRows, SelNoColumns}
\* the row A1:B1, and what the host holds at an address
A1B1 == <<"A","1",":","B","1">>
RangeA1B1 ==
  [address |-> A1B1, rowCount |-> 1, columnCount |-> 2,
   values |-> << <<Cell("number", Text20), Cell("string", TextX)>> >>,
   formulas |-> << <<Cell("string", TextFormula), Cell("string", TextX)>> >>]
Ranges == {SelB2C3, RangeA1B1}
RangeAt(address) == CHOOSE r \in Ranges : r.address = address

\* Range.address as the host reports it: sheet-qualified
FullAddress(sheetName, address) == sheetName \o <<"!">> \o address

\* A worksheet of the host
Sheet(id, name) == [id |-> id, name |-> name, cells |-> <<>>]

\* The workbooks the invocations may start from, with the active sheet
Workbooks ==
  { [sheets |-> <<Sheet(1, Data)>>, active |-> 1],
    [sheets |-> <<Sheet(1, Data), Sheet(2, copyofdata2), Sheet(3, CopyOfData)>>,
     active |-> 1],
    [sheets |-> <<Sheet(1, Data), Sheet(2, copyofdata2), Sheet(3, CopyOfData)>>,
     active |-> 3],
    [sheets |-> <<Sheet(1, BACKUP), Sheet(2, Data), Sheet(3, Backup2)>>,
     active |-> 2] }

\* What the host raises
ErrorObject(message) == [isError |-> TRUE, message |-> message]
GeneralException == ErrorObject("GeneralException")
ItemNotFound == ErrorObject("ItemNotFound")
ItemAlreadyExists == ErrorObject("ItemAlreadyExists")
\* a rejection with a value that is not an Error
Rejection == [isError |-> FALSE, string |-> "rejected"]
\* what a sync may reject with: the host's Error; the first sync of an
\* invocation also stands for Excel.run rejecting with any other value
HostErrors == {GeneralException}
FirstSyncErrors == {GeneralException, Rejection}

VARIABLES
  sheets,        \* host: the worksheets, in position order (position = index - 1)
  active,        \* host: id of the active worksheet
  nextId,        \* host: id the next added worksheet gets
  pc,            \* per invocation: the sync it is suspended at, or "idle" / "done"
  kind,          \* per invocation: "copy" | "duplicate"
  options,       \* per invocation: its arguments
  captured,      \* per invocation: the CapturedRange
  existingNames, \* per invocation: generateUniqueSheetName's set
  uniqueName,    \* per invocation: the generated name
  activePos,     \* per invocation: createSheet's loaded activeSheet.position
  newSheet,      \* per invocation: id of the worksheet createSheet added
  result,        \* per invocation: the AutomationResult returned
  log,           \* history: the syncs an invocation issued, in order
  writes,        \* history: the range writes an invocation queued, in order
  thrown,        \* history: the errors an invocation's try block caught
  seen,          \* history: what the host showed an invocation
  frame,         \* a function evaluated on its own: its arguments, locals, result
  taskpane,      \* task pane: the live-update checkbox, selectionHandler, the
                 \* calls suspended at a sync (oldest first), the console
  handlers       \* host: the selection-changed handlers registered

\* the variables of the automations
libVars == <<sheets, active, nextId, pc, kind, options, captured, existingNames,
             uniqueName, activePos, newSheet, result, log, writes, thrown, seen>>

vars == <<sheets, active, nextId, pc, kind, options, captured, existingNames,
          uniqueName, activePos, newSheet, result, log, writes, thrown, seen,
          frame, taskpane, handlers>>

\* the variables of the live update
paneVars == <<taskpane, handlers>>

hostVars == <<sheets, active, nextId>>

\* values of the per-invocation variables before they are assigned
NoOptions ==
  [sheetName |-> Undefined, valuesOnly |-> "undefined",
   activateNewSheet |-> "undefined", targetAddress |-> Undefined,
   name |-> Undefined, position |-> "undefined", address |-> Undefined]
NoCapture ==
  [address |-> Undefined, sourceSheet |-> Undefined, values |-> <<>>,
   formulas |-> <<>>, rowCount |-> -1, columnCount |-> -1]
NoResult == [pending |-> TRUE]
NoSeen == [callSheets |-> <<>>, callActive |-> 0, items |-> <<>>, activeSheet |-> 0]
NoFrame == [fn |-> "none"]

(***************************************************************************)
(* Host helpers                                                            *)
(***************************************************************************)
SheetIds == {sheets[i].id : i \in 1..Len(sheets)}
IndexOf(id) == CHOOSE i \in 1..Len(sheets) : sheets[i].id = id
\* Worksheet.position: zero-based
PositionOf(id) == IndexOf(id) - 1
ActiveSheet == sheets[IndexOf(active)]
\* worksheets.items mapped to their names
ItemNames == [i \in 1..Len(sheets) |-> sheets[i].name]

\* The host compares worksheet names without regard to case
HostHasName(name) ==
  \E i \in 1..Len(sheets) : toLowerCase(sheets[i].name) = toLowerCase(name)

\* The name the host gives a worksheet added without one
DefaultName == <<"S","h","e","e","t">> \o NumberToString(nextId)

\* (mutant) the moved sheet takes the place of the sheet at `position`
SetPositionOverwrites(all, position) ==
  LET n == Len(all)
      added == all[n]
  IN  SubSeq(all, 1, position) \o <<added>> \o SubSeq(all, position + 2, n - 1)

\* The worksheets after the host moved a sheet appended last to `position`
SetPosition(all, position) ==
  LET n == Len(all)
      added == all[n]
  IN  SubSeq(all, 1, position) \o <<added>> \o SubSeq(all, position + 1, n - 1)

\* The worksheets after a write of `w` to range `address` of sheet `id`
WriteCells(id, address, w) ==
  [i \in 1..Len(sheets) |->
     IF sheets[i].id = id
       THEN [sheets[i] EXCEPT !.cells =
               [a \in (DOMAIN sheets[i].cells) \cup {address} |->
                  IF a = address THEN w ELSE sheets[i].cells[a]]]
       ELSE sheets[i]]

(***************************************************************************)
(* lib/range.ts                                                            *)
(***************************************************************************)
\* (mutant) the part before the separator is taken
AddressOnlySheetPart(address) ==
  IF includes(address, "!") THEN split(address, "!")[1] ELSE address

\* address.includes('!') ? address.split('!')[1] : address
\* (captureSelection's addressOnly, extractSelectionData's addressPart)
AddressOnly(address) ==
  IF includes(address, "!") THEN split(address, "!")[2] ELSE address

\* captureSelection: the CapturedRange built from one synchronized read of
\* the selected range and the active sheet's name
captureSelection(range, sheetName) ==
  LET addressOnly == AddressOnly(range.address)
  IN  [address |-> addressOnly,
       sourceSheet |-> sheetName,
       values |-> range.values,
       formulas |-> range.formulas,
       rowCount |-> range.rowCount,
       columnCount |-> range.columnCount]

\* what the host loads for the selection `sel` on the active sheet
SelectedRange(sel) ==
  [sel EXCEPT !.address = FullAddress(ActiveSheet.name, sel.address)]

\* (mutant) the two counts are exchanged
captureRangeCountsSwapped(range, sheetName) ==
  [address |-> AddressOnly(range.address),
   sourceSheet |-> sheetName,
   values |-> range.values,
   formulas |-> range.formulas,
   rowCount |-> range.columnCount,
   columnCount |-> range.rowCount]

\* captureRange: the CapturedRange built from one synchronized read of the
\* range at an address of a sheet and of that sheet's name
captureRange(range, sheetName) ==
  LET addressOnly == AddressOnly(range.address)
  IN  [address |-> addressOnly,
       sourceSheet |-> sheetName,
       values |-> range.values,
       formulas |-> range.formulas,
       rowCount |-> range.rowCount,
       columnCount |-> range.columnCount]

\* worksheets.getItem(sheetName), or the active worksheet: the index of the
\* sheet, 0 when the host has no sheet of that name
SheetIndex(sheetName) ==
  IF sheetName = Undefined THEN IndexOf(active)
  ELSE IF HostHasName(sheetName)
    THEN CHOOSE i \in 1..Len(sheets) :
           toLowerCase(sheets[i].name) = toLowerCase(sheetName)
    ELSE 0

\* (mutant) the target address is ignored
PasteAddressCaptured(c, targetAddress) == c.address

\* pasteRange: the address it resolves the destination range from
PasteAddress(c, targetAddress) ==
  IF targetAddress # Undefined THEN targetAddress ELSE c.address

\* (mutant) the formulas are written whatever valuesOnly is
PasteWriteFormulasAlways(c, valuesOnly) ==
  [property |-> "formulas", grid |-> c.formulas]

\* pasteRange: the one property it sets on the destination range
PasteWrite(c, valuesOnly) ==
  IF valuesOnly
    THEN [property |-> "values", grid |-> c.values]
    ELSE [property |-> "formulas", grid |-> c.formulas]

(***************************************************************************)
(* lib/sheet.ts                                                            *)
(***************************************************************************)
\* `${baseName} (${counter})`
Candidate(baseName, counter) ==
  baseName \o <<" ", "(">> \o NumberToString(counter) \o <<")">>

\* the while loop of generateUniqueSheetName, entered with `counter`
RECURSIVE ProbeCounter(_, _, _)
ProbeCounter(names, baseName, counter) ==
  IF toLowerCase(Candidate(baseName, counter)) \in names
    THEN ProbeCounter(names, baseName, counter + 1)
    ELSE counter

\* new Set(sheets.items.map(s => s.name.toLowerCase()))
ExistingNames(items) == {toLowerCase(items[i]) : i \in 1..Len(items)}

\* (mutant) the names are compared with regard to case
generateUniqueSheetNameCaseSensitive(items, baseName) ==
  LET names == {items[i] : i \in 1..Len(items)}
  IN  IF baseName \notin names
        THEN baseName
        ELSE Candidate(baseName,
               CHOOSE k \in 2..(Len(items) + 2) :
                 /\ Candidate(baseName, k) \notin names
                 /\ \A j \in 2..(k - 1) : Candidate(baseName, j) \in names)

generateUniqueSheetName(items, baseName) ==
  LET names == ExistingNames(items)
  IN  IF toLowerCase(baseName) \notin names
        THEN baseName
        ELSE Candidate(baseName, ProbeCounter(names, baseName, 2))

\* (mutant) the 'end' branch is missing: 'end' is positioned as the default
NewSheetPositionNoEnd(position, activePosition) ==
  IF position = "before" THEN activePosition ELSE activePosition + 1

\* (mutant) the new sheet takes the active sheet's position
NewSheetPositionBefore(position, activePosition) == activePosition

\* createSheet: the position it assigns to the new sheet, -1 when it assigns none
NewSheetPosition(position, activePosition) ==
  IF position = "before" THEN activePosition
  ELSE IF position = "end" THEN -1
  ELSE activePosition + 1

(***************************************************************************)
(* lib/automations.ts                                                      *)
(***************************************************************************)
\* the arguments an invocation may be called with: the documented usages
\* copySelectionToNewSheet(), copySelectionToNewSheet({ valuesOnly: true }),
\* copySelectionToNewSheet({ sheetName: 'Backup', valuesOnly: true,
\* activateNewSheet: false }), and duplicateSelection('A1'[, true]); and
\* copySelectionToNewSheet({ activateNewSheet: true })
CopyOptions ==
  { [NoOptions EXCEPT !.valuesOnly = "undefined"],
    [NoOptions EXCEPT !.valuesOnly = "true"],
    [NoOptions EXCEPT !.activateNewSheet = "true"],
    [NoOptions EXCEPT !.sheetName = Backup, !.valuesOnly = "true",
                      !.activateNewSheet = "false"] }
DuplicateOptions ==
  { [NoOptions EXCEPT !.targetAddress = A1],
    [NoOptions EXCEPT !.targetAddress = A1, !.valuesOnly = "true"] }

\* the library functions called on their own inside Excel.run: what they
\* throw rejects the caller's Excel.run
LibraryCalls == {"createSheet", "captureSelection", "captureRange"}

\* captureRange(context, address, sheetName?) called on its own
CaptureRangeOptions ==
  { [NoOptions EXCEPT !.address = a, !.sheetName = n] :
      a \in {B2C3, A1B1}, n \in {Undefined, Data, Backup} }

\* createSheet(context, options) called on its own: a name or none, and
\* each position
CreateSheetOptions ==
  { [NoOptions EXCEPT !.name = n, !.position = pos] :
      n \in {Undefined, CopyOfData},
      pos \in {"undefined", "before", "after", "end"} }

\* the options an invocation's createSheet runs with: copySelectionToNewSheet
\* passes { name: uniqueName }
SheetOptions(p) ==
  IF kind[p] = "createSheet"
    THEN options[p]
    ELSE [NoOptions EXCEPT !.name = uniqueName[p]]

\* (mutant) the check is missing
IsEmptyCaptureNever(c) == FALSE

\* (mutant) the check looks at the rows only
IsEmptyCaptureRowsOnly(c) == c.rowCount = 0

\* captured.rowCount === 0 || captured.columnCount === 0
IsEmptyCapture(c) == c.rowCount = 0 \/ c.columnCount = 0

\* (mutant) the caller's sheetName is ignored
BaseNameDefaultOnly(o, c) == <<"C","o","p","y"," ","o","f"," ">> \o c.sourceSheet

\* options.sheetName || `Copy of ${captured.sourceSheet}`
BaseName(o, c) ==
  IF o.sheetName # Undefined THEN o.sheetName
  ELSE <<"C","o","p","y"," ","o","f"," ">> \o c.sourceSheet

\* options.valuesOnly ?? false, and duplicateSelection's default parameter
ValuesOnly(o) == o.valuesOnly = "true"

\* (mutant) the sheet is activated only when asked for
ActivatesOnlyWhenTrue(o) == o.activateNewSheet = "true"

\* options.activateNewSheet !== false
Activates(o) == o.activateNewSheet # "false"

\* (mutant) the catch block drops what was thrown
CatchResultGeneric(e) == [success |-> FALSE, error |-> "Unknown error"]

\* (mutant) the catch block returns a result with data and error
CatchResultPartial(e) ==
  [success |-> FALSE, data |-> <<>>,
   error |-> IF e.isError THEN e.message ELSE e.string]

\* the catch block: the failure result made of what was thrown
CatchResult(e) ==
  [success |-> FALSE, error |-> IF e.isError THEN e.message ELSE e.string]

NoCellsSelected == [success |-> FALSE, error |-> "No cells selected"]

CopySuccess(c, name) ==
  [success |-> TRUE,
   data |-> [captured |-> c, newSheetName |-> name, pastedAddress |-> c.address]]

DuplicateSuccess(c, targetAddress) ==
  [success |-> TRUE,
   data |-> [sourceAddress |-> c.address, targetAddress |-> targetAddress]]

\* no automation has been called on the workbook w
InitAutomations(w) ==
  /\ sheets = w.sheets /\ active = w.active
  /\ nextId = Len(sheets) + 1
  /\ pc = [p \in Procs |-> "idle"]
  /\ kind = [p \in Procs |-> "none"]
  /\ options = [p \in Procs |-> NoOptions]
  /\ captured = [p \in Procs |-> NoCapture]
  /\ existingNames = [p \in Procs |-> {}]
  /\ uniqueName = [p \in Procs |-> Undefined]
  /\ activePos = [p \in Procs |-> -1]
  /\ newSheet = [p \in Procs |-> 0]
  /\ result = [p \in Procs |-> NoResult]
  /\ log = [p \in Procs |-> <<>>]
  /\ writes = [p \in Procs |-> <<>>]
  /\ thrown = [p \in Procs |-> <<>>]
  /\ seen = [p \in Procs |-> NoSeen]

\* the task pane is not loaded
NoTaskpane ==
  [loaded |-> FALSE, liveUpdate |-> FALSE, selectionHandler |-> 0,
   calls |-> <<>>, created |-> 0, errors |-> 0]

PaneIdle == taskpane = NoTaskpane /\ handlers = {}

Init ==
  /\ \E w \in Workbooks : InitAutomations(w)
  /\ frame = NoFrame
  /\ PaneIdle

\* the invocation issues the sync of `step`
Sync(p, step) == log' = [log EXCEPT ![p] = Append(@, step)]

\* the sync rejects with `e`: the try block ends and the catch block returns
Throw(p, e) ==
  /\ thrown' = [thrown EXCEPT ![p] = Append(@, e)]
  /\ result' = [result EXCEPT ![p] =
       IF kind[p] \in LibraryCalls THEN [rejected |-> e] ELSE CatchResult(e)]
  /\ pc' = [pc EXCEPT ![p] = "done"]

\* the callback returns `r`
Return(p, r) ==
  /\ result' = [result EXCEPT ![p] = r]
  /\ pc' = [pc EXCEPT ![p] = "done"]
  /\ UNCHANGED thrown

\* the invocation suspends at the sync of `step`
Goto(p, step) ==
  /\ pc' = [pc EXCEPT ![p] = step]
  /\ UNCHANGED <<result, thrown>>

\* copySelectionToNewSheet(options) / duplicateSelection(targetAddress,
\* valuesOnly) is called: it runs to captureSelection's sync
Call(p) ==
  /\ pc[p] = "idle"
  /\ \A q \in Procs : q < p => pc[q] # "idle"
  /\ \E k \in {"copy", "duplicate"} :
       /\ kind' = [kind EXCEPT ![p] = k]
       /\ \E o \in (IF k = "copy" THEN CopyOptions ELSE DuplicateOptions) :
            options' = [options EXCEPT ![p] = o]
  /\ seen' = [seen EXCEPT ![p].callSheets = sheets, ![p].callActive = active]
  /\ pc' = [pc EXCEPT ![p] = "capture"]
  /\ UNCHANGED <<hostVars, captured, existingNames, uniqueName, activePos,
                 newSheet, result, log, writes, thrown>>
  /\ UNCHANGED <<frame, paneVars>>

\* createSheet(context, options) is called on its own inside Excel.run: it
\* runs to the sync that loads activeSheet.position
CallCreateSheet(p) ==
  /\ pc[p] = "idle"
  /\ \A q \in Procs : q < p => pc[q] # "idle"
  /\ kind' = [kind EXCEPT ![p] = "createSheet"]
  /\ \E o \in CreateSheetOptions : options' = [options EXCEPT ![p] = o]
  /\ seen' = [seen EXCEPT ![p].callSheets = sheets, ![p].callActive = active]
  /\ pc' = [pc EXCEPT ![p] = "position"]
  /\ UNCHANGED <<hostVars, captured, existingNames, uniqueName, activePos,
                 newSheet, result, log, writes, thrown>>
  /\ UNCHANGED <<frame, paneVars>>

\* copySelectionToNewSheet, step 1: captureSelection's sync answers
CopyCapture(p) ==
  /\ pc[p] = "capture" /\ kind[p] = "copy"
  /\ Sync(p, "capture")
  /\ \/ \E e \in FirstSyncErrors : Throw(p, e) /\ UNCHANGED captured
     \/ \E sel \in Selections :
          LET c == captureSelection(SelectedRange(sel), ActiveSheet.name)
          IN  /\ captured' = [captured EXCEPT ![p] = c]
              /\ IF IsEmptyCapture(c)
                   THEN Return(p, NoCellsSelected)
                   ELSE Goto(p, "naming")
  /\ UNCHANGED <<hostVars, kind, options, existingNames, uniqueName, activePos,
                 newSheet, writes, seen>>
  /\ UNCHANGED <<frame, paneVars>>

\* step 2: generateUniqueSheetName's sync answers; createSheet runs to its
\* first sync
CopyNaming(p) ==
  /\ pc[p] = "naming"
  /\ Sync(p, "naming")
  /\ \/ \E e \in HostErrors :
          Throw(p, e) /\ UNCHANGED <<existingNames, uniqueName, seen>>
     \/ /\ existingNames' = [existingNames EXCEPT ![p] = ExistingNames(ItemNames)]
        /\ uniqueName' = [uniqueName EXCEPT ![p] =
             generateUniqueSheetName(ItemNames, BaseName(options[p], captured[p]))]
        /\ seen' = [seen EXCEPT ![p].items = ItemNames]
        /\ Goto(p, "position")
  /\ UNCHANGED <<hostVars, kind, options, captured, activePos, newSheet, writes>>
  /\ UNCHANGED <<frame, paneVars>>

\* step 3, createSheet: the sync loading activeSheet.position answers; the
\* add and the position assignment are queued
CopyPosition(p) ==
  /\ pc[p] = "position"
  /\ Sync(p, "position")
  /\ \/ \E e \in HostErrors : Throw(p, e) /\ UNCHANGED <<activePos, seen>>
     \/ /\ activePos' = [activePos EXCEPT ![p] = PositionOf(active)]
        /\ seen' = [seen EXCEPT ![p].activeSheet = active]
        /\ Goto(p, "create")
  /\ UNCHANGED <<hostVars, kind, options, captured, existingNames, uniqueName,
                 newSheet, writes>>
  /\ UNCHANGED <<frame, paneVars>>

\* step 3, createSheet: the sync of sheets.add(name) and of the position
\* assignment answers; pasteRange queues its write
CopyCreate(p) ==
  /\ pc[p] = "create"
  /\ Sync(p, "create")
  /\ LET o == SheetOptions(p)
         name == IF o.name # Undefined THEN o.name ELSE DefaultName
         added == Append(sheets, Sheet(nextId, name))
         position == NewSheetPosition(o.position, activePos[p])
     IN  \/ /\ HostHasName(name)
            /\ Throw(p, ItemAlreadyExists)
            /\ UNCHANGED <<hostVars, newSheet>>
         \/ /\ ~HostHasName(name)
            /\ \E e \in HostErrors : Throw(p, e)
            /\ UNCHANGED <<hostVars, newSheet>>
         \/ /\ ~HostHasName(name)
            /\ \E e \in HostErrors : Throw(p, e)
            /\ sheets' = added
            /\ nextId' = nextId + 1
            /\ UNCHANGED <<active, newSheet>>
         \/ /\ ~HostHasName(name)
            /\ sheets' = IF position = -1 THEN added ELSE SetPosition(added, position)
            /\ nextId' = nextId + 1
            /\ newSheet' = [newSheet EXCEPT ![p] = nextId]
            /\ IF kind[p] = "createSheet"
                 THEN Return(p, [worksheet |-> nextId])
                 ELSE Goto(p, "paste")
            /\ UNCHANGED active
  /\ UNCHANGED <<kind, options, captured, existingNames, uniqueName, activePos,
                 writes, seen>>
  /\ UNCHANGED <<frame, paneVars>>

\* (mutant) a failed paste deletes the sheet that was created
CopyPasteRollback(p) ==
  /\ pc[p] = "paste" /\ kind[p] = "copy"
  /\ Sync(p, "paste")
  /\ LET address == PasteAddress(captured[p], captured[p].address)
         w == PasteWrite(captured[p], ValuesOnly(options[p]))
     IN  /\ writes' = [writes EXCEPT ![p] =
               Append(@, [sheet |-> newSheet[p], address |-> address, write |-> w])]
         /\ \/ /\ \E e \in HostErrors : Throw(p, e)
               /\ sheets' = SelectSeq(sheets, LAMBDA sh : sh.id # newSheet[p])
            \/ /\ sheets' = WriteCells(newSheet[p], address, w)
               /\ IF Activates(options[p])
                    THEN Goto(p, "activate")
                    ELSE Return(p, CopySuccess(captured[p], uniqueName[p]))
  /\ UNCHANGED <<active, nextId, kind, options, captured, existingNames,
                 uniqueName, activePos, newSheet, seen>>
  /\ UNCHANGED <<frame, paneVars>>

\* step 4: pasteRange's sync answers
CopyPaste(p) ==
  /\ pc[p] = "paste" /\ kind[p] = "copy"
  /\ Sync(p, "paste")
  /\ LET address == PasteAddress(captured[p], captured[p].address)
         w == PasteWrite(captured[p], ValuesOnly(options[p]))
     IN  /\ writes' = [writes EXCEPT ![p] =
               Append(@, [sheet |-> newSheet[p], address |-> address, write |-> w])]
         /\ \/ \E e \in HostErrors : Throw(p, e) /\ UNCHANGED sheets
            \/ /\ sheets' = WriteCells(newSheet[p], address, w)
               /\ IF Activates(options[p])
                    THEN Goto(p, "activate")
                    ELSE Return(p, CopySuccess(captured[p], uniqueName[p]))
  /\ UNCHANGED <<active, nextId, kind, options, captured, existingNames,
                 uniqueName, activePos, newSheet, seen>>
  /\ UNCHANGED <<frame, paneVars>>

\* step 5: the sync of newSheet.activate() answers
CopyActivate(p) ==
  /\ pc[p] = "activate"
  /\ Sync(p, "activate")
  /\ \/ \E e \in HostErrors : Throw(p, e) /\ UNCHANGED active
     \/ /\ active' = newSheet[p]
        /\ Return(p, CopySuccess(captured[p], uniqueName[p]))
  /\ UNCHANGED <<sheets, nextId, kind, options, captured, existingNames,
                 uniqueName, activePos, newSheet, writes, seen>>
  /\ UNCHANGED <<frame, paneVars>>

\* duplicateSelection: captureSelection's sync answers; pasteRange queues its
\* write on the active worksheet
DuplicateCapture(p) ==
  /\ pc[p] = "capture" /\ kind[p] = "duplicate"
  /\ Sync(p, "capture")
  /\ \/ \E e \in FirstSyncErrors : Throw(p, e) /\ UNCHANGED captured
     \/ \E sel \in Selections :
          /\ captured' = [captured EXCEPT ![p] =
               captureSelection(SelectedRange(sel), ActiveSheet.name)]
          /\ Goto(p, "paste")
  /\ UNCHANGED <<hostVars, kind, options, existingNames, uniqueName, activePos,
                 newSheet, writes, seen>>
  /\ UNCHANGED <<frame, paneVars>>

\* duplicateSelection: pasteRange's sync answers
DuplicatePaste(p) ==
  /\ pc[p] = "paste" /\ kind[p] = "duplicate"
  /\ Sync(p, "paste")
  /\ LET address == PasteAddress(captured[p], options[p].targetAddress)
         w == PasteWrite(captured[p], ValuesOnly(options[p]))
     IN  /\ writes' = [writes EXCEPT ![p] =
               Append(@, [sheet |-> active, address |-> address, write |-> w])]
         /\ \/ \E e \in HostErrors : Throw(p, e) /\ UNCHANGED sheets
            \/ /\ sheets' = WriteCells(active, address, w)
               /\ Return(p, DuplicateSuccess(captured[p], options[p].targetAddress))
  /\ UNCHANGED <<active, nextId, kind, options, captured, existingNames,
                 uniqueName, activePos, newSheet, seen>>
  /\ UNCHANGED <<frame, paneVars>>

Step(p) ==
  \/ Call(p)
  \/ CopyCapture(p)
  \/ CopyNaming(p)
  \/ CopyPosition(p)
  \/ CopyCreate(p)
  \/ CopyPaste(p)
  \/ CopyActivate(p)
  \/ DuplicateCapture(p)
  \/ DuplicatePaste(p)

Next == \E p \in Procs : Step(p)

Spec == Init /\ [][Next]_vars

\* Invocations that do not overlap: each is awaited before the next is called
NextSeq ==
  \E p \in Procs :
    /\ \A q \in Procs \ {p} : pc[q] \in {"idle", "done"}
    /\ Step(p)

SpecSeq == Init /\ [][NextSeq]_vars

\* captureSelection(context) or captureRange(context, address, sheetName)
\* is called on its own inside Excel.run: it runs to its sync
CallCapture(p) ==
  /\ pc[p] = "idle"
  /\ \A q \in Procs : q < p => pc[q] # "idle"
  /\ \E k \in {"captureSelection", "captureRange"} :
       /\ kind' = [kind EXCEPT ![p] = k]
       /\ \E o \in (IF k = "captureRange" THEN CaptureRangeOptions ELSE {NoOptions}) :
            options' = [options EXCEPT ![p] = o]
  /\ seen' = [seen EXCEPT ![p].callSheets = sheets, ![p].callActive = active]
  /\ pc' = [pc EXCEPT ![p] = "capture"]
  /\ UNCHANGED <<hostVars, captured, existingNames, uniqueName, activePos,
                 newSheet, result, log, writes, thrown>>
  /\ UNCHANGED <<frame, paneVars>>

\* captureSelection's sync answers: the function returns or throws
CaptureSelectionSync(p) ==
  /\ pc[p] = "capture" /\ kind[p] = "captureSelection"
  /\ Sync(p, "capture")
  /\ \/ \E e \in HostErrors : Throw(p, e) /\ UNCHANGED captured
     \/ \E sel \in Selections :
          LET c == captureSelection(SelectedRange(sel), ActiveSheet.name)
          IN  captured' = [captured EXCEPT ![p] = c] /\ Return(p, c)
  /\ UNCHANGED <<hostVars, kind, options, existingNames, uniqueName, activePos,
                 newSheet, writes, seen>>
  /\ UNCHANGED <<frame, paneVars>>

\* captureRange's sync answers: the function returns or throws
CaptureRangeSync(p) ==
  /\ pc[p] = "capture" /\ kind[p] = "captureRange"
  /\ Sync(p, "capture")
  /\ LET i == SheetIndex(options[p].sheetName)
     IN  \/ \E e \in HostErrors : Throw(p, e) /\ UNCHANGED captured
         \/ i = 0 /\ Throw(p, ItemNotFound) /\ UNCHANGED captured
         \/ /\ i # 0
            /\ LET range == [RangeAt(options[p].address) EXCEPT
                               !.address = FullAddress(sheets[i].name, @)]
                   c == captureRange(range, sheets[i].name)
               IN  captured' = [captured EXCEPT ![p] = c] /\ Return(p, c)
  /\ UNCHANGED <<hostVars, kind, options, existingNames, uniqueName, activePos,
                 newSheet, writes, seen>>
  /\ UNCHANGED <<frame, paneVars>>

\* the capture primitives called on their own, invocations overlapping
NextCapture ==
  \E p \in Procs :
    \/ CallCapture(p)
    \/ CaptureSelectionSync(p)
    \/ CaptureRangeSync(p)

SpecCapture == Init /\ [][NextCapture]_vars

\* createSheet called on its own, invocations overlapping
NextCreate ==
  \E p \in Procs :
    \/ CallCreateSheet(p)
    \/ CopyPosition(p)
    \/ CopyCreate(p)

SpecCreate == Init /\ [][NextCreate]_vars

(***************************************************************************)
(* generateUniqueSheetName, statement by statement, on the names the sync  *)
(* loaded                                                                  *)
(***************************************************************************)
\* the sub-list of `pool` at the indices in S
RECURSIVE SubList(_, _)
SubList(pool, S) ==
  IF pool = <<>> THEN <<>>
  ELSE LET rest == SubList(Tail(pool), {i - 1 : i \in S \ {1}})
       IN  IF 1 \in S THEN <<Head(pool)>> \o rest ELSE rest

\* sheet names a workbook may hold: Data, Copy of Data, and Copy of Data (k)
\* in the letter case of the base name or all in lower case
NamePool ==
  <<Data, CopyOfData>> \o
  [i \in 1..(MaxSuffix - 1) |->
     IF i % 2 = 0 THEN toLowerCase(Candidate(CopyOfData, i + 1))
                  ELSE Candidate(CopyOfData, i + 1)]

BaseNames == {CopyOfData, Backup}

\* the call generateUniqueSheetName(context, baseName), its sync answered
\* with `items`
NamingFrame(items, baseName) ==
  [fn |-> "generateUniqueSheetName", items |-> items, baseName |-> baseName,
   existingNames |-> {}, counter |-> 0, probes |-> 0, pc |-> "set",
   ret |-> Undefined]

InitNaming ==
  /\ InitAutomations([sheets |-> <<Sheet(1, Data)>>, active |-> 1])
  /\ \E S \in SUBSET (1..Len(NamePool)) : \E b \in BaseNames :
       frame = NamingFrame(SubList(NamePool, S), b)
  /\ PaneIdle

\* the set of lower-cased names is built and the base name looked up
NamingTryBase ==
  /\ frame.fn = "generateUniqueSheetName" /\ frame.pc = "set"
  /\ LET names == ExistingNames(frame.items)
     IN  frame' =
           IF toLowerCase(frame.baseName) \notin names
             THEN [frame EXCEPT !.existingNames = names, !.pc = "returned",
                                !.ret = frame.baseName]
             ELSE [frame EXCEPT !.existingNames = names, !.pc = "while",
                                !.counter = 2]
  /\ UNCHANGED <<libVars, paneVars>>

\* (mutant) the loop body does not advance the counter
NamingProbeStuck ==
  /\ frame.fn = "generateUniqueSheetName" /\ frame.pc = "while"
  /\ frame' =
       IF toLowerCase(Candidate(frame.baseName, frame.counter)) \in frame.existingNames
         THEN [frame EXCEPT !.probes = @ + 1]
         ELSE [frame EXCEPT !.probes = @ + 1, !.pc = "returned",
                            !.ret = Candidate(frame.baseName, frame.counter)]
  /\ UNCHANGED <<libVars, paneVars>>

\* one evaluation of the while condition: the loop body, or the return
NamingProbe ==
  /\ frame.fn = "generateUniqueSheetName" /\ frame.pc = "while"
  /\ frame' =
       IF toLowerCase(Candidate(frame.baseName, frame.counter)) \in frame.existingNames
         THEN [frame EXCEPT !.probes = @ + 1, !.counter = @ + 1]
         ELSE [frame EXCEPT !.probes = @ + 1, !.pc = "returned",
                            !.ret = Candidate(frame.baseName, frame.counter)]
  /\ UNCHANGED <<libVars, paneVars>>

NextNaming == NamingTryBase \/ NamingProbe

\* a running function is not suspended: it takes its next step
SpecNaming == InitNaming /\ [][NextNaming]_vars /\ WF_vars(NextNaming)

(***************************************************************************)
(* taskpane/taskpane.ts: the column conversions                            *)
(***************************************************************************)
\* String.prototype.charCodeAt, of a one-character string
charCodeAt(c) ==
  IF \E i \in 1..26 : UpperChars[i] = c
    THEN 64 + (CHOOSE i \in 1..26 : UpperChars[i] = c)
  ELSE IF \E i \in 1..26 : LowerChars[i] = c
    THEN 96 + (CHOOSE i \in 1..26 : LowerChars[i] = c)
  ELSE IF \E i \in 1..10 : DigitChars[i] = c
    THEN 47 + (CHOOSE i \in 1..10 : DigitChars[i] = c)
  ELSE IF c = "!" THEN 33
  ELSE IF c = "$" THEN 36
  ELSE IF c = ":" THEN 58
  ELSE 32

\* String.fromCharCode, of the codes 65..90
fromCharCode(code) == UpperChars[code - 64]

\* (mutant) the letters are taken as digits 0..25
columnToNumberZeroBased(col) ==
  LET RECURSIVE Loop(_, _)
      Loop(i, num) ==
        IF i <= Len(col) THEN Loop(i + 1, num * 26 + (charCodeAt(col[i]) - 65))
        ELSE num
  IN  Loop(1, 0)

\* columnToNumber: the for loop over the characters of col
columnToNumber(col) ==
  LET RECURSIVE Loop(_, _)
      Loop(i, num) ==
        IF i <= Len(col) THEN Loop(i + 1, num * 26 + (charCodeAt(col[i]) - 64))
        ELSE num
  IN  Loop(1, 0)

\* (mutant) the number is not shifted to zero-based before each division
getColumnLetterNoShift(num) ==
  LET RECURSIVE Loop(_, _)
      Loop(n, letter) ==
        IF n > 0
          THEN Loop(n \div 26, <<fromCharCode(65 + (n % 26))>> \o letter)
          ELSE letter
  IN  Loop(num, <<>>)

\* getColumnLetter: the while loop
getColumnLetter(num) ==
  LET RECURSIVE Loop(_, _)
      Loop(n, letter) ==
        IF n > 0
          THEN LET mod == (n - 1) % 26
               IN  Loop((n - 1) \div 26, <<fromCharCode(65 + mod)>> \o letter)
          ELSE letter
  IN  Loop(num, <<>>)

\* the runs of upper-case letters of at most MaxLetters letters, and AAA
LetterRuns ==
  UNION {[1..k -> {UpperChars[i] : i \in 1..26}] : k \in 1..MaxLetters}
    \cup {<<"A","A","A">>}

\* a conversion and the conversion back: getColumnLetter(n) then
\* columnToNumber, or columnToNumber(col) then getColumnLetter
ColumnFrame(first, arg) ==
  [fn |-> "column", first |-> first, arg |-> arg, pc |-> "first",
   mid |-> Undefined, ret |-> Undefined]

InitColumns ==
  /\ InitAutomations([sheets |-> <<Sheet(1, Data)>>, active |-> 1])
  /\ \/ \E n \in 1..MaxColumn : frame = ColumnFrame("getColumnLetter", n)
     \/ \E col \in LetterRuns : frame = ColumnFrame("columnToNumber", col)
  /\ PaneIdle

\* getColumnLetter is applied, to the argument or to the number obtained
ApplyGetColumnLetter ==
  /\ frame.fn = "column"
  /\ \/ /\ frame.pc = "first" /\ frame.first = "getColumnLetter"
        /\ frame' = [frame EXCEPT !.mid = getColumnLetter(frame.arg), !.pc = "second"]
     \/ /\ frame.pc = "second" /\ frame.first = "columnToNumber"
        /\ frame' = [frame EXCEPT !.ret = getColumnLetter(frame.mid), !.pc = "done"]
  /\ UNCHANGED <<libVars, paneVars>>

\* columnToNumber is applied, to the argument or to the letters obtained
ApplyColumnToNumber ==
  /\ frame.fn = "column"
  /\ \/ /\ frame.pc = "first" /\ frame.first = "columnToNumber"
        /\ frame' = [frame EXCEPT !.mid = columnToNumber(frame.arg), !.pc = "second"]
     \/ /\ frame.pc = "second" /\ frame.first = "getColumnLetter"
        /\ frame' = [frame EXCEPT !.ret = columnToNumber(frame.mid), !.pc = "done"]
  /\ UNCHANGED <<libVars, paneVars>>

NextColumns == ApplyGetColumnLetter \/ ApplyColumnToNumber

SpecColumns == InitColumns /\ [][NextColumns]_vars

(***************************************************************************)
(* taskpane/taskpane.ts, extractSelectionData: the start cell of the       *)
(* selection is split into column letters and row number, and each cell's  *)
(* reference is composed from them                                         *)
(***************************************************************************)
\* the character classes [A-Z] and \d
UpperClass == {UpperChars[i] : i \in 1..26}
DigitClass == {DigitChars[i] : i \in 1..10}

\* String.prototype.match(/[A-Z]+/)?.[0] and match(/\d+/)?.[0]: the first
\* longest run of characters of the class, Undefined when there is none
FirstRun(s, class) ==
  IF \A i \in 1..Len(s) : s[i] \notin class THEN Undefined
  ELSE LET a == CHOOSE i \in 1..Len(s) :
                  s[i] \in class /\ \A j \in 1..(i - 1) : s[j] \notin class
           b == CHOOSE i \in a..Len(s) :
                  /\ \A j \in a..i : s[j] \in class
                  /\ (i = Len(s) \/ s[i + 1] \notin class)
       IN  SubSeq(s, a, b)

\* parseInt, of a run of decimal digits
parseInt(s) ==
  LET RECURSIVE Loop(_, _)
      Loop(i, n) ==
        IF i <= Len(s) THEN Loop(i + 1, n * 10 + (charCodeAt(s[i]) - 48)) ELSE n
  IN  Loop(1, 0)

\* startCell.match(/[A-Z]+/)?.[0] || 'A'
StartCol(startCell) ==
  LET run == FirstRun(startCell, UpperClass)
  IN  IF run # Undefined THEN run ELSE <<"A">>

\* parseInt(startCell.match(/\d+/)?.[0] || '1')
StartRow(startCell) ==
  LET run == FirstRun(startCell, DigitClass)
  IN  parseInt(IF run # Undefined THEN run ELSE <<"1">>)

\* (mutant) the row offset is counted from one
CellRefRowFromOne(startCol, startRow, row, col) ==
  getColumnLetter(columnToNumber(startCol) + col) \o NumberToString(startRow + row + 1)

\* `${colLetter}${rowNum}` of the cell at offset (row, col)
CellRef(startCol, startRow, row, col) ==
  getColumnLetter(columnToNumber(startCol) + col) \o NumberToString(startRow + row)

\* the characters of the start-cell texts, and the texts
RefChars == {"C", "Z", "0", "1", "$"}
StartCells == UNION {[1..k -> RefChars] : k \in 1..MaxRef}

\* the start cell is parsed, then the reference of the first cell composed
RefFrame(startCell) ==
  [fn |-> "reference", startCell |-> startCell, pc |-> "parse",
   startCol |-> Undefined, startRow |-> -1, cellRef |-> Undefined,
   error |-> "none"]

InitReference ==
  /\ InitAutomations([sheets |-> <<Sheet(1, Data)>>, active |-> 1])
  /\ \E startCell \in StartCells : frame = RefFrame(startCell)
  /\ PaneIdle

\* lines 80-81: startCol and startRow; nothing is thrown
ParseStartCell ==
  /\ frame.fn = "reference" /\ frame.pc = "parse"
  /\ frame' = [frame EXCEPT !.startCol = StartCol(frame.startCell),
                            !.startRow = StartRow(frame.startCell),
                            !.pc = "compose"]
  /\ UNCHANGED <<libVars, paneVars>>

\* lines 86-88, first iteration (row = 0, col = 0)
ComposeFirstCell ==
  /\ frame.fn = "reference" /\ frame.pc = "compose"
  /\ frame' = [frame EXCEPT !.cellRef = CellRef(frame.startCol, frame.startRow, 0, 0),
                            !.pc = "done"]
  /\ UNCHANGED <<libVars, paneVars>>

NextReference == ParseStartCell \/ ComposeFirstCell

SpecReference == InitReference /\ [][NextReference]_vars

(***************************************************************************)
(* The sheet prefix of an address (lib/range.ts captureSelection,          *)
(* taskpane.ts extractSelectionData)                                       *)
(***************************************************************************)
Sheet1A1C10 == <<"S","h","e","e","t","1","!","A","1",":","C","1","0">>
A1C10 == <<"A","1",":","C","1","0">>
AddressChars == {"S", "!", "A", "1", ":"}
Addresses ==
  UNION {[1..k -> AddressChars] : k \in 1..MaxAddress} \cup {Sheet1A1C10, A1C10}

\* the prefix is stripped from an address, and from the result again
AddressFrame(address) ==
  [fn |-> "addressOnly", address |-> address, pc |-> "once",
   once |-> Undefined, twice |-> Undefined]

InitAddress ==
  /\ InitAutomations([sheets |-> <<Sheet(1, Data)>>, active |-> 1])
  /\ \E address \in Addresses : frame = AddressFrame(address)
  /\ PaneIdle

StripOnce ==
  /\ frame.fn = "addressOnly" /\ frame.pc = "once"
  /\ frame' = [frame EXCEPT !.once = AddressOnly(frame.address), !.pc = "twice"]
  /\ UNCHANGED <<libVars, paneVars>>

StripTwice ==
  /\ frame.fn = "addressOnly" /\ frame.pc = "twice"
  /\ frame' = [frame EXCEPT !.twice = AddressOnly(frame.once), !.pc = "done"]
  /\ UNCHANGED <<libVars, paneVars>>

NextAddress == StripOnce \/ StripTwice

SpecAddress == InitAddress /\ [][NextAddress]_vars

(***************************************************************************)
(* taskpane/taskpane.ts, extractSelectionData: the payload                 *)
(***************************************************************************)
\* the null of a CellData formula, and of currentContext
Null == Cell("null", Undefined)

\* what a cell of the selection holds: its value and its formula text (the
\* host reports the value itself where there is no formula)
CellKinds ==
  << [value |-> Cell("number", Text20), formula |-> Cell("string", TextFormula)],
     [value |-> Cell("string", TextX), formula |-> Cell("string", TextX)],
     [value |-> Cell("number", <<"7">>), formula |-> Cell("number", <<"7">>)] >>

\* the first cells of the selections: B2 and Z9
StartCorners == {[col |-> 2, row |-> 2], [col |-> 26, row |-> 9]}

\* the host's text of the cell at column `col`, row `row`
HostCellText(col, row) == getColumnLetter(col) \o NumberToString(row)

\* what the host loads for the selection of rows x cols cells at `start` on
\* sheet Data, the kinds of cells rotating from `pattern`
HostSelection(start, rows, cols, pattern) ==
  LET kindAt(r, c) == CellKinds[((r * cols + c + pattern) % 3) + 1]
      first == HostCellText(start.col, start.row)
      last == HostCellText(start.col + cols - 1, start.row + rows - 1)
  IN  [address |-> FullAddress(Data,
                     IF rows * cols <= 1 THEN first ELSE first \o <<":">> \o last),
       rowCount |-> rows, columnCount |-> cols,
       values |-> [r \in 1..rows |-> [c \in 1..cols |-> kindAt(r - 1, c - 1).value]],
       formulas |-> [r \in 1..rows |-> [c \in 1..cols |-> kindAt(r - 1, c - 1).formula]]]

\* String.prototype.startsWith, for a one-character prefix
startsWith(s, c) == Len(s) >= 1 /\ s[1] = c

\* (mutant) the formula is included whatever the checkbox says
CellDataFormulaAlways(range, startCol, startRow, includeFormulas, row, col) ==
  LET value == range.values[row + 1][col + 1]
      formula == range.formulas[row + 1][col + 1]
      hasFormula == formula.type = "string" /\ startsWith(formula.text, "=")
  IN  [ref |-> CellRef(startCol, startRow, row, col),
       value |-> value,
       formula |-> IF hasFormula THEN formula ELSE Null]

\* the body of the inner loop: the CellData pushed for the cell (row, col)
CellData(range, startCol, startRow, includeFormulas, row, col) ==
  LET value == range.values[row + 1][col + 1]
      formula == range.formulas[row + 1][col + 1]
      hasFormula == formula.type = "string" /\ startsWith(formula.text, "=")
  IN  [ref |-> CellRef(startCol, startRow, row, col),
       value |-> value,
       formula |-> IF includeFormulas /\ hasFormula THEN formula ELSE Null]

\* lines 69-110: the ContextPayload built from the loaded range
ContextPayload(range, sheetName, includeFormulas, now) ==
  LET addressPart == AddressOnly(range.address)
      startCell == split(addressPart, ":")[1]
      startCol == StartCol(startCell)
      startRow == StartRow(startCell)
      RECURSIVE Loop(_, _, _)
      Loop(row, col, cells) ==
        IF row >= range.rowCount THEN cells
        ELSE IF col >= range.columnCount THEN Loop(row + 1, 0, cells)
        ELSE Loop(row, col + 1,
                  Append(cells, CellData(range, startCol, startRow,
                                         includeFormulas, row, col)))
  IN  [selection |-> addressPart, sheet |-> sheetName, timestamp |-> now,
       cells |-> Loop(0, 0, <<>>)]

\* extractSelectionData is called, the selection and the checkbox being
\* what they are: it runs to its sync
ExtractFrame(start, rows, cols, pattern, includeFormulas) ==
  [fn |-> "extractSelectionData", start |-> start,
   range |-> HostSelection(start, rows, cols, pattern),
   includeFormulas |-> includeFormulas, pc |-> "sync",
   currentContext |-> Null, status |-> "none"]

InitExtract ==
  /\ InitAutomations([sheets |-> <<Sheet(1, Data)>>, active |-> 1])
  /\ \E start \in StartCorners : \E rows, cols \in 0..MaxDim :
       \E pattern \in 0..2 : \E includeFormulas \in BOOLEAN :
         frame = ExtractFrame(start, rows, cols, pattern, includeFormulas)
  /\ PaneIdle

\* the sync answers: the payload is built and stored, or the error is
\* caught and shown
ExtractSync ==
  /\ frame.fn = "extractSelectionData" /\ frame.pc = "sync"
  /\ \/ frame' = [frame EXCEPT
                     !.currentContext =
                        ContextPayload(frame.range, ActiveSheet.name,
                                       frame.includeFormulas,
                                       "2026-01-30T05:00:00.000Z"),
                     !.pc = "done"]
     \/ frame' = [frame EXCEPT
                     !.status = "Error extracting selection data", !.pc = "done"]
  /\ UNCHANGED <<libVars, paneVars>>

NextExtract == ExtractSync

SpecExtract == InitExtract /\ [][NextExtract]_vars

(***************************************************************************)
(* taskpane/taskpane.ts: live update                                       *)
(***************************************************************************)
\* a call suspended at its context.sync(); handler is the handler whose
\* registration or removal the batch queued (0: none)
PaneCall(fn, handler) == [fn |-> fn, handler |-> handler]

\* setupSelectionHandler run to its sync: the EventHandlerResult of
\* onSelectionChanged.add is assigned to selectionHandler before the sync
setupSelectionHandler(tp) ==
  [tp EXCEPT !.selectionHandler = tp.created + 1,
             !.created = tp.created + 1,
             !.calls = Append(@, PaneCall("setupSelectionHandler", tp.created + 1))]

\* removeSelectionHandler run to its sync: nothing when selectionHandler is
\* null, else remove() is queued on the handler selectionHandler holds
removeSelectionHandler(tp) ==
  IF tp.selectionHandler # 0
    THEN [tp EXCEPT !.calls =
            Append(@, PaneCall("removeSelectionHandler", tp.selectionHandler))]
    ELSE tp

\* Office.onReady has registered the listeners and awaits the initial
\* extractSelectionData; the page decides whether the checkbox starts checked
InitLive ==
  /\ InitAutomations([sheets |-> <<Sheet(1, Data)>>, active |-> 1])
  /\ frame = NoFrame
  /\ \E checked \in BOOLEAN :
       taskpane = [loaded |-> TRUE, liveUpdate |-> checked, selectionHandler |-> 0,
                   calls |-> <<PaneCall("extractSelectionData", 0)>>,
                   created |-> 0, errors |-> 0]
  /\ handlers = {}

\* the user flips the checkbox: the change event calls toggleLiveUpdate
toggleLiveUpdate ==
  /\ taskpane.loaded
  /\ LET tp == [taskpane EXCEPT !.liveUpdate = ~taskpane.liveUpdate]
     IN  IF tp.liveUpdate
           THEN /\ taskpane.created < MaxHandlers
                /\ taskpane' = setupSelectionHandler(tp)
           ELSE taskpane' = removeSelectionHandler(tp)
  /\ UNCHANGED <<handlers, libVars, frame>>

\* the host answers the oldest sync, that of a setupSelectionHandler: the
\* handler is registered, or the error is caught and logged
SetupSync ==
  /\ taskpane.calls # <<>>
  /\ Head(taskpane.calls).fn = "setupSelectionHandler"
  /\ \/ /\ handlers' = handlers \cup {Head(taskpane.calls).handler}
        /\ taskpane' = [taskpane EXCEPT !.calls = Tail(@)]
     \/ /\ taskpane' = [taskpane EXCEPT !.calls = Tail(@), !.errors = @ + 1]
        /\ UNCHANGED handlers
  /\ UNCHANGED <<libVars, frame>>

\* the host answers the oldest sync, that of a removeSelectionHandler: the
\* handler is removed and selectionHandler set to null, or the error is
\* caught and logged
RemoveSync ==
  /\ taskpane.calls # <<>>
  /\ Head(taskpane.calls).fn = "removeSelectionHandler"
  /\ \/ /\ handlers' = handlers \ {Head(taskpane.calls).handler}
        /\ taskpane' = [taskpane EXCEPT !.calls = Tail(@), !.selectionHandler = 0]
     \/ /\ taskpane' = [taskpane EXCEPT !.calls = Tail(@), !.errors = @ + 1]
        /\ UNCHANGED handlers
  /\ UNCHANGED <<libVars, frame>>

\* the initial extractSelectionData of Office.onReady returns (it catches
\* its own errors): live updates are set up if the checkbox is checked now
ReadyExtracted ==
  /\ taskpane.calls # <<>>
  /\ Head(taskpane.calls).fn = "extractSelectionData"
  /\ LET tp == [taskpane EXCEPT !.calls = Tail(@)]
     IN  IF tp.liveUpdate
           THEN /\ taskpane.created < MaxHandlers
                /\ taskpane' = setupSelectionHandler(tp)
           ELSE taskpane' = tp
  /\ UNCHANGED <<handlers, libVars, frame>>

NextLive == toggleLiveUpdate \/ SetupSync \/ RemoveSync \/ ReadyExtracted

SpecLive == InitLive /\ [][NextLive]_vars

(***************************************************************************)
(* Vocabulary of the properties                                            *)
(***************************************************************************)
Issued(p, step) == \E i \in 1..Len(log[p]) : log[p][i] = step
TimesIssued(p, step) == Cardinality({i \in 1..Len(log[p]) : log[p][i] = step})
HasCaptured(p) == captured[p] # NoCapture
CapturedNothing(p) ==
  HasCaptured(p) /\ (captured[p].rowCount = 0 \/ captured[p].columnCount = 0)
Succeeded(p) == pc[p] = "done" /\ "data" \in DOMAIN result[p]
Failed(p) == pc[p] = "done" /\ "error" \in DOMAIN result[p]
SameName(a, b) == toLowerCase(a) = toLowerCase(b)
StartsWithEquals(cell) == Len(cell.text) > 0 /\ cell.text[1] = "="
HasFormulaCell(grid) ==
  \E r \in 1..Len(grid) : \E c \in 1..Len(grid[r]) : StartsWithEquals(grid[r][c])

\* C1: copySelectionToNewSheet on a capture with zero rows or zero columns
\* returns the failure 'No cells selected' having issued the capture only:
\* no sheet is created, nothing is written, nothing is activated; when no
\* other invocation has acted, the host's sheets and active sheet are as
\* they were at the call.
C1_EmptySelectionFails ==
  \A p \in Procs :
    (kind[p] = "copy" /\ CapturedNothing(p)) =>
      /\ pc[p] = "done"
      /\ result[p] = [success |-> FALSE, error |-> "No cells selected"]
      /\ log[p] = <<"capture">>
      /\ writes[p] = <<>>
      /\ newSheet[p] = 0
      /\ (\A q \in Procs \ {p} : log[q] = <<>>) =>
            (sheets = seen[p].callSheets /\ active = seen[p].callActive)

C1_Witness ==
  \E p \in Procs :
    /\ kind[p] = "copy" /\ pc[p] = "done"
    /\ captured[p].columnCount = 0 /\ captured[p].rowCount = 1
    /\ \A q \in Procs \ {p} : log[q] = <<>>

\* C2: in both automations, an error raised by the host at any sync ends the
\* invocation with the failure result carrying that error's message; the
\* sync that failed is the last one issued and no sync is issued twice.
C2_ErrorsBecomeFailures ==
  \A p \in Procs :
    thrown[p] # <<>> =>
      /\ Len(thrown[p]) = 1
      /\ pc[p] = "done"
      /\ result[p] =
           [success |-> FALSE,
            error |-> IF thrown[p][1].isError
                        THEN thrown[p][1].message ELSE thrown[p][1].string]
      /\ \A i, j \in 1..Len(log[p]) : log[p][i] = log[p][j] => i = j

C2_Witness ==
  /\ \E p \in Procs :
       /\ kind[p] = "copy" /\ thrown[p] = <<GeneralException>>
       /\ log[p][Len(log[p])] = "activate" /\ Failed(p)
  /\ \E p \in Procs :
       /\ kind[p] = "duplicate" /\ thrown[p] # <<>>
       /\ log[p][Len(log[p])] = "paste" /\ Failed(p)

\* C3: when copySelectionToNewSheet created its sheet and then fails (at the
\* paste or at the activation), the created sheet is still among the host's
\* sheets, under the generated name.
C3_NoRollback ==
  \A p \in Procs :
    (kind[p] = "copy" /\ newSheet[p] # 0 /\ Failed(p)) =>
      \E i \in 1..Len(sheets) :
        sheets[i].id = newSheet[p] /\ sheets[i].name = uniqueName[p]

C3_Witness ==
  \E p \in Procs :
    /\ kind[p] = "copy" /\ newSheet[p] # 0 /\ Failed(p)
    /\ log[p][Len(log[p])] = "paste"
    /\ newSheet[p] \in SheetIds

\* C4: the generated name is the base name when no existing name equals it
\* without regard to case, and otherwise "base (k)" for the least k >= 2
\* whose "base (k)" equals no existing name without regard to case; in both
\* cases it equals no existing name without regard to case.
C4_UniqueName ==
  \A p \in Procs :
    uniqueName[p] # Undefined =>
      LET E == {seen[p].items[i] : i \in 1..Len(seen[p].items)}
          base == IF options[p].sheetName # Undefined
                    THEN options[p].sheetName
                    ELSE <<"C","o","p","y"," ","o","f"," ">> \o captured[p].sourceSheet
          Numbered(k) == base \o <<" ", "(", DigitChars[k + 1], ")">>
          Used(n) == \E e \in E : SameName(e, n)
      IN  /\ ~Used(uniqueName[p])
          /\ IF ~Used(base)
               THEN uniqueName[p] = base
               ELSE \E k \in 2..9 :
                      /\ uniqueName[p] = Numbered(k)
                      /\ \A j \in 2..(k - 1) : Used(Numbered(j))

\* existing names {BACKUP, Data, Backup (2)}, base name Backup: Backup (3)
C4_Witness ==
  \E p \in Procs :
    /\ uniqueName[p] = <<"B","a","c","k","u","p"," ","(","3",")">>
    /\ {seen[p].items[i] : i \in 1..Len(seen[p].items)} = {BACKUP, Data, Backup2}

\* C5 (as claimed): when a copySelectionToNewSheet invocation is about to
\* create its sheet, the name it generated is still unused in the host
\* (without regard to case), and no invocation fails with the host's naming
\* conflict.
C5_NameStillUnused ==
  \A p \in Procs :
    /\ pc[p] = "create" => ~HostHasName(uniqueName[p])
    /\ Failed(p) => result[p].error # "ItemAlreadyExists"

\* what holds of the host and of the result of invocation p
C6_Post(p) ==
  LET d == result[p].data
      before == seen[p].callSheets
      named == {i \in 1..Len(sheets) : sheets[i].name = d.newSheetName}
      i == CHOOSE i \in named : TRUE
  IN  /\ Cardinality(named) = 1
      /\ \A j \in 1..Len(before) :
           before[j].id # sheets[i].id /\ ~SameName(before[j].name, d.newSheetName)
      /\ i > 1 /\ sheets[i - 1].id = seen[p].callActive
      /\ d.pastedAddress = d.captured.address
      /\ d.pastedAddress \in {sel.address : sel \in Selections}
      /\ d.pastedAddress \in DOMAIN sheets[i].cells
      /\ sheets[i].cells[d.pastedAddress].grid =
           IF options[p].valuesOnly = "true"
             THEN d.captured.values ELSE d.captured.formulas
      /\ d.captured.rowCount = Len(sheets[i].cells[d.pastedAddress].grid)

CopyOrder == <<"capture", "naming", "position", "create", "paste", "activate">>
IsPrefix(s, t) == Len(s) <= Len(t) /\ \A i \in 1..Len(s) : s[i] = t[i]
PasteLanded(p) ==
  \E i \in 1..Len(sheets) :
    sheets[i].id = newSheet[p] /\ captured[p].address \in DOMAIN sheets[i].cells

\* C7 (as claimed): in every automation the syncs follow the fixed order
\* without repetition, a sheet is created only after a non-empty capture,
\* the paste is issued only after the sheet was created, the activation
\* only after the paste succeeded.
C7_OrderEveryAutomation ==
  \A p \in Procs :
    /\ \A i, j \in 1..Len(log[p]) :
         i < j => \E a, b \in 1..Len(CopyOrder) :
                    a < b /\ CopyOrder[a] = log[p][i] /\ CopyOrder[b] = log[p][j]
    /\ Issued(p, "create") => (HasCaptured(p) /\ ~CapturedNothing(p))
    /\ Issued(p, "paste") => (Issued(p, "create") /\ newSheet[p] \in SheetIds)
    /\ Issued(p, "activate") => PasteLanded(p)

\* the order of the syncs, per automation
C7_Order ==
  \A p \in Procs :
    /\ kind[p] = "copy" =>
         /\ IsPrefix(log[p], CopyOrder)
         /\ Issued(p, "create") => (HasCaptured(p) /\ ~CapturedNothing(p))
         /\ Issued(p, "paste") => newSheet[p] \in SheetIds
         /\ Issued(p, "activate") => PasteLanded(p)
    /\ kind[p] = "duplicate" =>
         /\ IsPrefix(log[p], <<"capture", "paste">>)
         /\ Issued(p, "paste") => HasCaptured(p)
         /\ newSheet[p] = 0
    /\ kind[p] = "none" => log[p] = <<>>

\* Done and Failed are terminal: a returned invocation issues nothing more
\* and its result stays.
C7_Terminal ==
  \A p \in Procs :
    pc[p] = "done" =>
      /\ pc'[p] = "done" /\ result'[p] = result[p]
      /\ log'[p] = log[p] /\ writes'[p] = writes[p]

\* C7 (amended): copySelectionToNewSheet issues its syncs in the order
\* capture, naming, position, create, paste, activate, each at most once,
\* creating the sheet only after a non-empty capture, pasting only after the
\* sheet was created, activating only after the paste succeeded;
\* duplicateSelection issues capture then paste and never creates a sheet;
\* a returned invocation (Done or Failed) takes no further step.
C7_FixedOrder == []C7_Order /\ [][C7_Terminal]_vars

C7_Witness ==
  /\ \E p \in Procs : kind[p] = "copy" /\ log[p] = CopyOrder /\ Succeeded(p)
  /\ \E p \in Procs :
       kind[p] = "duplicate" /\ log[p] = <<"capture", "paste">> /\ Succeeded(p)

\* an invocation that reached the paste queued exactly one range write and
\* issued the paste sync once; without valuesOnly the write sets the
\* formulas property to the captured formulas grid, with valuesOnly it sets
\* the values property to the captured values grid, which holds no formula
C8_OneWrite ==
  \A p \in Procs :
    Issued(p, "paste") =>
      /\ Len(writes[p]) = 1 /\ TimesIssued(p, "paste") = 1
      /\ log[p][Len(log[p])] = "paste" \/ log[p][Len(log[p])] = "activate"
      /\ LET w == writes[p][1].write
         IN  IF options[p].valuesOnly = "true"
               THEN /\ w = [property |-> "values", grid |-> captured[p].values]
                    /\ ~HasFormulaCell(w.grid)
               ELSE w = [property |-> "formulas", grid |-> captured[p].formulas]

\* the paste sync that succeeds leaves that one write, and nothing else of
\* the capture, at the destination range
C8_Received ==
  \A p \in Procs :
    (pc[p] = "paste" /\ pc'[p] # "paste" /\ thrown'[p] = <<>>) =>
      LET w == writes'[p][1]
      IN  \E i \in 1..Len(sheets') :
            /\ sheets'[i].id = w.sheet
            /\ w.address \in DOMAIN sheets'[i].cells
            /\ sheets'[i].cells[w.address] = w.write
            /\ \A a \in DOMAIN sheets'[i].cells :
                 a # w.address => (a \in DOMAIN sheets[i].cells
                                   /\ sheets'[i].cells[a] = sheets[i].cells[a])

\* C8: pasteRange issues exactly one write, then one synchronize: the
\* formulas grid without valuesOnly, the values grid (and no formula of the
\* capture) with valuesOnly; the destination receives that write.
C8_PasteWritesOnce == []C8_OneWrite /\ [][C8_Received]_vars

\* a values-only paste of a capture that holds a formula
C8_Witness ==
  \E p \in Procs :
    /\ Succeeded(p) /\ options[p].valuesOnly = "true"
    /\ HasFormulaCell(captured[p].formulas)
    /\ writes[p][1].write.property = "values"

\* C9 (as claimed): every automation whose capture has zero rows or zero
\* columns queues no write and, once returned, has returned a failure.
C9_EveryAutomationChecksEmpty ==
  \A p \in Procs :
    CapturedNothing(p) =>
      /\ writes[p] = <<>>
      /\ pc[p] = "done" => Failed(p)

\* C10: a returned result is either success with data and no error, or
\* failure with an error and no data.
C10_BinaryResult ==
  \A p \in Procs :
    pc[p] = "done" =>
      LET r == result[p]
      IN  /\ "success" \in DOMAIN r
          /\ \/ r.success /\ "data" \in DOMAIN r /\ "error" \notin DOMAIN r
             \/ ~r.success /\ "error" \in DOMAIN r /\ "data" \notin DOMAIN r

C10_Witness ==
  /\ \E p \in Procs : pc[p] = "done" /\ result[p].success
  /\ \E p \in Procs : pc[p] = "done" /\ ~result[p].success /\ thrown[p] # <<>>

\* createSheet's position sync reads the zero-based position of the sheet
\* that is active at that sync
C11_ReadsActivePosition ==
  \A p \in Procs :
    (pc[p] = "position" /\ pc'[p] = "create") =>
      /\ activePos'[p] \in 0..(Len(sheets) - 1)
      /\ sheets[activePos'[p] + 1].id = active

\* the sync of the add leaves the new sheet at the position the option asks
\* for and the other sheets in their order
C11_Placed ==
  \A p \in Procs :
    (kind[p] = "createSheet" /\ newSheet[p] = 0 /\ newSheet'[p] # 0) =>
      LET n == Len(sheets')
          i == CHOOSE i \in 1..n : sheets'[i].id = newSheet'[p]
          position == options[p].position
      IN  /\ n = Len(sheets) + 1
          /\ \A j \in 1..Len(sheets) : sheets[j].id # newSheet'[p]
          /\ sheets = [j \in 1..(n - 1) |-> sheets'[IF j < i THEN j ELSE j + 1]]
          /\ position = "before" => i - 1 = activePos[p]
          /\ position \in {"after", "undefined"} => i - 1 = activePos[p] + 1
          /\ position = "end" => i = n

\* C11: createSheet reads the active sheet's position p before the add;
\* with position 'before' the new sheet gets position p, with 'after' or no
\* position it gets p + 1, with 'end' it gets none and stays where the host
\* appended it, last.
C11_CreateSheetPosition ==
  [][C11_ReadsActivePosition /\ C11_Placed]_vars

\* one sheet created 'before' the second sheet of three, one created at the
\* 'end' while the active sheet is not the last one
C11_Witness ==
  /\ \E p \in Procs :
       /\ kind[p] = "createSheet" /\ options[p].position = "before"
       /\ activePos[p] = 1 /\ Len(sheets) >= 4 /\ sheets[2].id = newSheet[p]
  /\ \E p \in Procs :
       /\ kind[p] = "createSheet" /\ options[p].position = "end"
       /\ activePos[p] + 1 < Len(sheets) - 1
       /\ sheets[Len(sheets)].id = newSheet[p]

\* the name of the worksheet `id`
NameOfSheet(id) == sheets[CHOOSE i \in 1..Len(sheets) : sheets[i].id = id].name
\* a worksheet the naming sync showed has the name n, without regard to case
ShownName(p, n) == \E i \in 1..Len(seen[p].items) : SameName(seen[p].items[i], n)
CopyOfDataN(k) ==
  <<"C","o","p","y"," ","o","f"," ","D","a","t","a"," ","(", DigitChars[k + 1], ")">>

\* C12: the sheet copySelectionToNewSheet created is named after the base
\* name, which is the caller's sheetName when given and "Copy of " followed
\* by the source sheet's name otherwise: the base name itself when the
\* naming sync showed no sheet of that name, else the base name followed by
\* " (k)" for the least k >= 2 not shown; with no sheetName, source sheet
\* Data and a sheet "Copy of Data" shown but no "Copy of Data (2)", it is
\* "Copy of Data (2)"; a success returns that name as newSheetName.
C12_NewSheetName ==
  \A p \in Procs :
    (kind[p] = "copy" /\ newSheet[p] # 0) =>
      LET name == NameOfSheet(newSheet[p])
          base == IF options[p].sheetName # Undefined
                    THEN options[p].sheetName
                    ELSE <<"C","o","p","y"," ","o","f"," ">> \o captured[p].sourceSheet
          Numbered(k) == base \o <<" ", "(", DigitChars[k + 1], ")">>
      IN  /\ IF ~ShownName(p, base)
               THEN name = base
               ELSE \E k \in 2..9 :
                      /\ name = Numbered(k)
                      /\ ~ShownName(p, Numbered(k))
                      /\ \A j \in 2..(k - 1) : ShownName(p, Numbered(j))
          /\ ( /\ options[p].sheetName = Undefined
               /\ captured[p].sourceSheet = Data
               /\ ShownName(p, CopyOfData) /\ ~ShownName(p, CopyOfDataN(2)) )
             => name = <<"C","o","p","y"," ","o","f"," ","D","a","t","a",
                         " ","(","2",")">>
          /\ Succeeded(p) => result[p].data.newSheetName = name

\* a successful copy of a selection on Data, no sheetName given, while the
\* workbook holds Data and "Copy of Data"
C12_Witness ==
  \E p \in Procs :
    /\ kind[p] = "copy" /\ Succeeded(p) /\ options[p].sheetName = Undefined
    /\ seen[p].items = <<Data, CopyOfData>>
    /\ NameOfSheet(newSheet[p]) = CopyOfDataN(2)

\* what a step of a copySelectionToNewSheet invocation does to the active
\* sheet
C13_Step ==
  \A p \in Procs :
    (kind[p] = "copy" /\ log'[p] # log[p]) =>
      /\ (Succeeded(p)' /\ options[p].activateNewSheet \in {"undefined", "true"}) =>
           /\ active' = newSheet'[p]
           /\ log'[p] = <<"capture", "naming", "position", "create", "paste",
                           "activate">>
           /\ \E i \in 1..Len(sheets') :
                sheets'[i].id = active' /\ captured[p].address \in DOMAIN sheets'[i].cells
      /\ options[p].activateNewSheet = "false" =>
           /\ active' = active
           /\ \A i \in 1..Len(log'[p]) : log'[p][i] # "activate"

\* C13: a copySelectionToNewSheet that succeeds with activateNewSheet absent
\* or true returns right after the sync of the activation, issued after the
\* paste, with the new sheet, holding the paste, as the host's active
\* sheet; with activateNewSheet false it issues no activation and none of
\* its steps changes the active sheet.
C13_Activation == [][C13_Step]_vars

\* a success with activateNewSheet true whose sheet is active, and a
\* success with activateNewSheet false whose sheet is not
C13_Witness ==
  /\ \E p \in Procs :
       /\ kind[p] = "copy" /\ Succeeded(p) /\ options[p].activateNewSheet = "true"
       /\ active = newSheet[p]
  /\ \E p \in Procs :
       /\ kind[p] = "copy" /\ Succeeded(p) /\ options[p].activateNewSheet = "false"
       /\ newSheet[p] \in SheetIds /\ active # newSheet[p]

\* the sheet collection: which sheets, in which order, under which names
Collection(all) == [i \in 1..Len(all) |-> <<all[i].id, all[i].name>>]

\* what a step of a duplicateSelection invocation does
C14_Step ==
  \A p \in Procs :
    (kind[p] = "duplicate" /\ log'[p] # log[p]) =>
      /\ Collection(sheets') = Collection(sheets)
      /\ active' = active /\ nextId' = nextId /\ newSheet'[p] = 0
      /\ \A i \in 1..Len(sheets) : \A a \in DOMAIN sheets'[i].cells :
           a # options[p].targetAddress =>
             (a \in DOMAIN sheets[i].cells /\ sheets'[i].cells[a] = sheets[i].cells[a])
      /\ Cardinality({i \in 1..Len(sheets) : sheets'[i].cells # sheets[i].cells}) <= 1
      /\ Len(writes'[p]) <= 1
      /\ \A i \in 1..Len(writes'[p]) : writes'[p][i].address = options[p].targetAddress
      /\ sheets' # sheets => (writes[p] = <<>> /\ Len(writes'[p]) = 1)
      /\ Succeeded(p)' =>
           /\ Len(writes'[p]) = 1
           /\ result'[p] = [success |-> TRUE,
                             data |-> [sourceAddress |-> captured[p].address,
                                       targetAddress |-> options[p].targetAddress]]

\* C14: no step of duplicateSelection changes which sheets the host has,
\* their order, their names or the active sheet; the invocation queues at
\* most one write, at targetAddress, and only the cells at targetAddress of
\* one sheet change; a success has written once and returns
\* {sourceAddress: captured.address, targetAddress}.
C14_DuplicateFrame == [][C14_Step]_vars

\* a successful duplicate of B2:C3 onto A1
C14_Witness ==
  \E p \in Procs :
    /\ kind[p] = "duplicate" /\ Succeeded(p)
    /\ result[p].data = [sourceAddress |-> B2C3, targetAddress |-> A1]
    /\ \E i \in 1..Len(sheets) :
         A1 \in DOMAIN sheets[i].cells /\ B2C3 \notin DOMAIN sheets[i].cells

\* the while condition was evaluated at most once per existing name and
\* once more
C15_ProbeBound ==
  frame.fn = "generateUniqueSheetName" =>
    /\ frame.probes <= Cardinality({frame.items[i] : i \in 1..Len(frame.items)}) + 1
    /\ frame.pc = "returned" =>
         /\ frame.ret # Undefined
         /\ frame.probes <= Cardinality(frame.existingNames) + 1
         /\ \A i \in 1..Len(frame.items) :
              toLowerCase(frame.items[i]) # toLowerCase(frame.ret)

\* C15: for every base name and every list of existing sheet names,
\* generateUniqueSheetName returns, having evaluated its loop condition on
\* at most (number of existing names) + 1 numbered candidates.
C15_Terminates ==
  /\ []C15_ProbeBound
  /\ <>(frame.fn = "generateUniqueSheetName" /\ frame.pc = "returned")

\* Copy of Data and every Copy of Data (k) exist: the loop runs to k + 1
C15_Witness ==
  /\ frame.fn = "generateUniqueSheetName" /\ frame.pc = "returned"
  /\ Len(frame.items) = Len(NamePool)
  /\ frame.ret = Candidate(CopyOfData, MaxSuffix + 1)
  /\ frame.probes = MaxSuffix

\* C16: for every column number n in 1..MaxColumn, getColumnLetter(n) is a
\* non-empty run of the letters A-Z, and columnToNumber of it is n.
C16_ColumnRoundTrip ==
  (frame.fn = "column" /\ frame.first = "getColumnLetter") =>
    /\ frame.pc # "first" =>
         /\ Len(frame.mid) >= 1
         /\ \A i \in 1..Len(frame.mid) : \E k \in 1..26 : frame.mid[i] = UpperChars[k]
    /\ frame.pc = "done" => frame.ret = frame.arg

C16_Witness ==
  /\ frame.fn = "column" /\ frame.first = "getColumnLetter" /\ frame.pc = "done"
  /\ frame.arg = MaxColumn /\ Len(frame.mid) = 3 /\ frame.ret = MaxColumn

\* 26 to the power k
RECURSIVE Pow26(_)
Pow26(k) == IF k = 0 THEN 1 ELSE 26 * Pow26(k - 1)
\* the digit of a letter: A = 1 .. Z = 26
LetterDigit(c) == CHOOSE k \in 1..26 : UpperChars[k] = c
\* the value of a run of letters as a base-26 numeral without zero digit,
\* most significant letter first
RECURSIVE Bijective26(_)
Bijective26(col) ==
  IF col = <<>> THEN 0
  ELSE LetterDigit(col[1]) * Pow26(Len(col) - 1) + Bijective26(Tail(col))
\* the spot values
SpotValues ==
  { <<1, <<"A">> >>, <<26, <<"Z">> >>, <<27, <<"A","A">> >>,
    <<52, <<"A","Z">> >>, <<702, <<"Z","Z">> >>, <<703, <<"A","A","A">> >> }

\* C17: getColumnLetter(n) is the run of letters whose value as a base-26
\* numeral with digits A = 1 .. Z = 26, most significant first, is n, and
\* columnToNumber(col) is that value of col; the two are inverse of each
\* other; 1, 26, 27, 52, 702, 703 correspond to A, Z, AA, AZ, ZZ, AAA in
\* both directions.
C17_BijectiveBase26 ==
  frame.fn = "column" =>
    /\ (frame.first = "getColumnLetter" /\ frame.pc # "first") =>
         /\ Bijective26(frame.mid) = frame.arg
         /\ \A sv \in SpotValues : frame.arg = sv[1] => frame.mid = sv[2]
    /\ (frame.first = "columnToNumber" /\ frame.pc # "first") =>
         /\ frame.mid = Bijective26(frame.arg)
         /\ \A sv \in SpotValues : frame.arg = sv[2] => frame.mid = sv[1]
    /\ frame.pc = "done" => frame.ret = frame.arg

C17_Witness ==
  /\ frame.fn = "column" /\ frame.first = "columnToNumber" /\ frame.pc = "done"
  /\ frame.arg = <<"Z","Z">> /\ frame.mid = 702 /\ frame.ret = <<"Z","Z">>

\* s is a run of upper-case letters followed by a run of digits, nothing else
LettersThenDigits(s) ==
  \E k \in 1..(Len(s) - 1) :
    /\ \A i \in 1..k : \E j \in 1..26 : s[i] = UpperChars[j]
    /\ \A i \in (k + 1)..Len(s) : \E j \in 1..10 : s[i] = DigitChars[j]
\* the first digit of s
FirstDigit(s) == s[CHOOSE i \in 1..Len(s) : (\E j \in 1..10 : s[i] = DigitChars[j])
                                            /\ \A h \in 1..(i - 1) : \A j \in 1..10 : s[h] # DigitChars[j]]
\* the digits of s denote a row >= 1
RowAtLeastOne(s) == \E i \in 1..Len(s) : \E j \in 2..10 : s[i] = DigitChars[j]

\* C18 (as claimed): a start cell that is not a letter run followed by a
\* digit run (a run is missing, or other characters are present) makes the
\* parse fail with a ParseError, no column and no row being produced.
C18_MalformedReferenceFails ==
  (frame.fn = "reference" /\ frame.pc # "parse"
     /\ ~LettersThenDigits(frame.startCell)) =>
    /\ frame.error = "ParseError"
    /\ frame.startCol = Undefined /\ frame.startRow = -1

\* C19 (as claimed): every letter run followed by a digit run denoting a
\* row >= 1 is composed again from its parse.
C19_RoundTripEveryDigitRun ==
  (frame.fn = "reference" /\ frame.pc = "done"
     /\ LettersThenDigits(frame.startCell) /\ RowAtLeastOne(frame.startCell)) =>
    frame.cellRef = frame.startCell

\* C19 (amended): a reference made of an upper-case letter run followed by
\* a digit run that denotes a row >= 1 and does not start with 0 is parsed
\* into its letters and its row number, and the reference composed from
\* them is the original string.
C19_RoundTrip ==
  (frame.fn = "reference" /\ LettersThenDigits(frame.startCell)
     /\ FirstDigit(frame.startCell) # "0") =>
    /\ frame.pc # "parse" =>
         \E k \in 1..(Len(frame.startCell) - 1) :
           /\ frame.startCol = SubSeq(frame.startCell, 1, k)
           /\ NumberToString(frame.startRow) =
                SubSeq(frame.startCell, k + 1, Len(frame.startCell))
    /\ frame.pc = "done" => frame.cellRef = frame.startCell

\* C10 is parsed into C and 10 and composed again
C19_Witness ==
  /\ frame.fn = "reference" /\ frame.pc = "done"
  /\ frame.startCell = <<"C","1","0">>
  /\ frame.startCol = <<"C">> /\ frame.startRow = 10
  /\ frame.cellRef = <<"C","1","0">>

\* the places of the separator in s
Separators(s) == {i \in 1..Len(s) : s[i] = "!"}

\* C20: of an address with one separator '!' the stripped address is
\* exactly the text after the separator; an address without separator is
\* returned unchanged; stripping the result again changes nothing;
\* Sheet1!A1:C10 gives A1:C10 and A1:C10 gives A1:C10.
C20_StripSheetPrefix ==
  (frame.fn = "addressOnly" /\ frame.pc # "once") =>
    LET a == frame.address
    IN  /\ Cardinality(Separators(a)) = 1 =>
             \E i \in Separators(a) :
               /\ Len(frame.once) = Len(a) - i
               /\ \A j \in 1..Len(frame.once) : frame.once[j] = a[i + j]
        /\ Separators(a) = {} => frame.once = a
        /\ a = <<"S","h","e","e","t","1","!","A","1",":","C","1","0">> =>
             frame.once = <<"A","1",":","C","1","0">>
        /\ a = <<"A","1",":","C","1","0">> => frame.once = a
        /\ frame.pc = "done" => frame.twice = frame.once

C20_Witness ==
  /\ frame.fn = "addressOnly" /\ frame.pc = "done"
  /\ frame.address = Sheet1A1C10
  /\ frame.once = A1C10 /\ frame.twice = A1C10

\* the grid has `rows` rows of `columns` cells
HasShape(grid, rows, columns) ==
  /\ Len(grid) = rows
  /\ \A r \in 1..Len(grid) : Len(grid[r]) = columns

\* C21: a call of captureSelection or of captureRange issues one sync and
\* no other; when the sync answers, the call returns a CapturedRange whose
\* values, formulas, rowCount and columnCount are those of one range of the
\* host, values and formulas both of shape rowCount x columnCount, whose
\* address is that range's without sheet prefix and whose sourceSheet is a
\* sheet of the host; when the sync fails, that error is what the call
\* throws, no second sync being issued.
C21_OneSnapshot ==
  \A p \in Procs :
    kind[p] \in {"captureSelection", "captureRange"} =>
      /\ pc[p] = "capture" => log[p] = <<>>
      /\ pc[p] = "done" =>
           /\ log[p] = <<"capture">>
           /\ Len(thrown[p]) <= 1
           /\ thrown[p] # <<>> =>
                (result[p] = [rejected |-> thrown[p][1]] /\ captured[p] = NoCapture)
           /\ thrown[p] = <<>> =>
                LET c == result[p]
                IN  /\ c = captured[p]
                    /\ c.rowCount >= 0 /\ c.columnCount >= 0
                    /\ HasShape(c.values, c.rowCount, c.columnCount)
                    /\ HasShape(c.formulas, c.rowCount, c.columnCount)
                    /\ \E r \in {SelB2C3, SelNoRows, SelNoColumns, RangeA1B1} :
                         /\ c.address = r.address
                         /\ c.values = r.values /\ c.formulas = r.formulas
                         /\ c.rowCount = r.rowCount /\ c.columnCount = r.columnCount
                    /\ \E i \in 1..Len(sheets) : sheets[i].name = c.sourceSheet

\* a captureRange of A1:B1 returned, a captureSelection failed
C21_Witness ==
  /\ \E p \in Procs :
       /\ kind[p] = "captureRange" /\ pc[p] = "done" /\ thrown[p] = <<>>
       /\ result[p].address = A1B1 /\ result[p].rowCount = 1
       /\ result[p].columnCount = 2
  /\ \E p \in Procs :
       /\ kind[p] = "captureSelection" /\ pc[p] = "done"
       /\ thrown[p] = <<GeneralException>>

\* what a step of a copySelectionToNewSheet invocation does to the sheets
C23_Step ==
  \A p \in Procs :
    (kind[p] = "copy" /\ log'[p] # log[p]) =>
      LET before == Collection(sheets)
          after == Collection(sheets')
          n == Len(before)
      IN  /\ \/ after = before
             \/ /\ Len(after) = n + 1
                /\ log'[p][Len(log'[p])] = "create"
                /\ \E i \in 1..(n + 1) :
                     /\ before = [j \in 1..n |-> after[IF j < i THEN j ELSE j + 1]]
                     /\ \A j \in 1..n : before[j][1] # after[i][1]
          /\ Cardinality({i \in 1..Len(log'[p]) : log'[p][i] = "create"}) <= 1
          /\ (newSheet[p] = 0 /\ newSheet'[p] # 0) => Len(after) = n + 1
          /\ Succeeded(p)' =>
               /\ \E i \in 1..Len(log'[p]) : log'[p][i] = "create"
               /\ \E i \in 1..Len(after) : after[i][1] = newSheet'[p]
               /\ \A j \in 1..Len(seen[p].callSheets) :
                    seen[p].callSheets[j].id # newSheet'[p]

\* C23: an invocation of copySelectionToNewSheet issues the sync of the add
\* at most once; that step adds at most one sheet and no other step of the
\* invocation adds any; a success has added exactly one; no step removes a
\* sheet present before it, renames it or changes the order of those
\* sheets.
C23_AtMostOneSheet == [][C23_Step]_vars

\* a copy that failed after its sheet was added, and a copy that failed
\* without adding one
C23_Witness ==
  /\ \E p \in Procs :
       /\ kind[p] = "copy" /\ Failed(p) /\ newSheet[p] \in SheetIds
  /\ \E p \in Procs :
       /\ kind[p] = "copy" /\ Failed(p) /\ newSheet[p] = 0
       /\ log[p][Len(log[p])] = "create"
  /\ Len(sheets) = 2

\* C24 (as claimed): the write of a duplicateSelection goes to the sheet
\* named captured.sourceSheet, whatever happened to the active sheet
\* between the sync of the capture and the sync of the paste.
C24_PastesOnSourceSheet ==
  \A p \in Procs :
    (kind[p] = "duplicate" /\ writes[p] # <<>>) =>
      \E i \in 1..Len(sheets) :
        /\ sheets[i].id = writes[p][1].sheet
        /\ sheets[i].name = captured[p].sourceSheet

\* the number a run of decimal digits denotes
RECURSIVE Decimal(_)
Decimal(d) ==
  IF d = <<>> THEN 0
  ELSE 10 * Decimal(SubSeq(d, 1, Len(d) - 1))
         + ((CHOOSE j \in 1..10 : DigitChars[j] = d[Len(d)]) - 1)

\* ref is the reference of the cell at column number col, row number row
IsRefOf(ref, col, row) ==
  \E k \in 1..(Len(ref) - 1) :
    LET letters == SubSeq(ref, 1, k)
        digits == SubSeq(ref, k + 1, Len(ref))
    IN  /\ \A i \in 1..Len(letters) : \E j \in 1..26 : letters[i] = UpperChars[j]
        /\ \A i \in 1..Len(digits) : \E j \in 1..10 : digits[i] = DigitChars[j]
        /\ digits[1] # "0"
        /\ Bijective26(letters) = col
        /\ Decimal(digits) = row

C25_LiveUpdateConsistent ==
  (taskpane.loaded /\ taskpane.errors = 0) =>
    /\ Cardinality(handlers) <= 1
    /\ taskpane.calls = <<>> =>
         /\ (handlers # {}) <=> taskpane.liveUpdate
         /\ (taskpane.selectionHandler = 0) <=> (handlers = {})
====
